---- MODULE Spec2Model ----
(***************************************************************************)
(* Model of src/engine/parser.rs: the single-pass, stack-based parser that *)
(* turns a regular-expression pattern into an AST or a ParserError.        *)
(*                                                                         *)
(* Characters are one-character strings.  AST nodes, Option values and     *)
(* Result values are tagged tuples whose first element is the tag.         *)
(* Positions are 0-based as in the source; expr[i + 1] is the character    *)
(* the iterator yields together with index i.                              *)
(***************************************************************************)
EXTENDS Naturals, Sequences, FiniteSets, TLC

VARIABLES expr, i, seq, seq_or, stack, state, pc, result

vars == <<expr, i, seq, seq_or, stack, state, pc, result>>

\* ---------------------------------------------------------------- bounds
MaxLen == 5

\* ------------------------------------------------------------ characters
SyntaxChars == {"\\", "(", ")", "|", "+", "*", "?"}

QuantChars == {"+", "*", "?"}

Literals == {"a", "b"}

Alphabet == Literals \cup SyntaxChars

\* Patterns named by the documentation, longer than MaxLen or using other
\* literal characters.
Examples ==
  { <<"a", "|", "b", "|", "c">>,
    <<"(", "a", "|", "b", ")", "c">>,
    <<"(", "a", "|", "b", "|", "c", ")">>,
    <<"(", "a", "b", ")", "*">>,
    <<"a", "b", "c">>,
    <<"\\", "n">>,
    <<"a", "\\", "n">> }

Inputs == UNION { [1..n -> Alphabet] : n \in 0..MaxLen } \cup Examples

\* ------------------------------------------------------------------- AST
Char(c) == <<"Char", c>>
Plus(t) == <<"Plus", t>>
Star(t) == <<"Star", t>>
Question(t) == <<"Question", t>>
Or(l, r) == <<"Or", l, r>>
ASTSeq(children) == <<"Seq", children>>

\* ---------------------------------------------------------- ParserError
InvalidEscape(pos, c) == <<"Err", "InvalidEscape", pos, c>>
InvalidRightParen(pos) == <<"Err", "InvalidRightParen", pos>>
NoPrev(pos) == <<"Err", "NoPrev", pos>>
NoRightParen == <<"Err", "NoRightParen">>
Empty == <<"Err", "Empty">>

Ok(x) == <<"Ok", x>>
Some(x) == <<"Some", x>>
None == <<"None">>
\* a failed unwrap aborts the call
Panic == <<"Panic">>

\* Vec::pop: the shortened vector and the removed last element, if any
VecPop(v) ==
  IF Len(v) = 0 THEN <<v, None>>
  ELSE <<SubSeq(v, 1, Len(v) - 1), Some(v[Len(v)])>>

\* Vec::reverse
Reverse(v) == [k \in 1..Len(v) |-> v[Len(v) + 1 - k]]

\* ------------------------------------------------------------- functions
\* parse_escape with a catch-all arm that accepts the character
parse_escape_any(pos, c) == Ok(Char(c))

parse_escape(pos, c) ==
  IF c \in {"\\", "(", ")", "|", "+", "*", "?"}
  THEN Ok(Char(c))
  ELSE InvalidEscape(pos, c)

PSQNode(ast_type, prev) ==
  CASE ast_type = "Plus" -> Plus(prev)
    [] ast_type = "Star" -> Star(prev)
    [] ast_type = "Question" -> Question(prev)

\* parse_plus_star_question refusing to quantify a quantified node
parse_psq_no_repeat(s, ast_type, pos) ==
  LET p == VecPop(s)
  IN IF p[2][1] = "Some" /\ p[2][2][1] \notin {"Plus", "Star", "Question"}
     THEN Ok(Append(p[1], PSQNode(ast_type, p[2][2])))
     ELSE NoPrev(pos)

\* parse_plus_star_question quantifying the whole sequence read so far
parse_psq_whole_seq(s, ast_type, pos) ==
  IF s # <<>>
  THEN Ok(<<PSQNode(ast_type, ASTSeq(s))>>)
  ELSE NoPrev(pos)

parse_plus_star_question(s, ast_type, pos) ==
  LET p == VecPop(s)
  IN IF p[2][1] = "Some"
     THEN Ok(Append(p[1], PSQNode(ast_type, p[2][2])))
     ELSE NoPrev(pos)

\* the for loop of fold_or: each remaining alternative becomes the left
\* operand of a new Or around what was built so far
RECURSIVE fold_or_loop(_, _)
fold_or_loop(rest, ast) ==
  IF rest = <<>> THEN ast
  ELSE fold_or_loop(Tail(rest), Or(Head(rest), ast))

\* fold_or without the call of reverse
fold_or_no_reverse(s) ==
  IF Len(s) > 1
  THEN LET p == VecPop(s)
       IN IF p[2][1] = "Some"
          THEN Some(fold_or_loop(p[1], p[2][2]))
          ELSE Panic
  ELSE VecPop(s)[2]

\* fold_or taking the multi-alternative branch for every length but one
fold_or_not_one(s) ==
  IF Len(s) # 1
  THEN LET p == VecPop(s)
       IN IF p[2][1] = "Some"
          THEN Some(fold_or_loop(Reverse(p[1]), p[2][2]))
          ELSE Panic
  ELSE VecPop(s)[2]

fold_or(s) ==
  IF Len(s) > 1
  THEN LET p == VecPop(s)
       IN IF p[2][1] = "Some"
          THEN Some(fold_or_loop(Reverse(p[1]), p[2][2]))
          ELSE Panic
  ELSE VecPop(s)[2]

PSQOf(c) ==
  CASE c = "+" -> "Plus"
    [] c = "*" -> "Star"
    [] c = "?" -> "Question"

\* ------------------------------------------------------------------ parse
Init ==
  /\ expr \in Inputs
  /\ i = 0
  /\ seq = <<>>
  /\ seq_or = <<>>
  /\ stack = <<>>
  /\ state = "Char"
  /\ pc = "loop"
  /\ result = None

\* the iterator yields (i, c) and the parser is in ParseState::Char
InChar(c) ==
  /\ pc = "loop"
  /\ i < Len(expr)
  /\ state = "Char"
  /\ expr[i + 1] = c

Return(r) ==
  /\ pc' = "done"
  /\ result' = r
  /\ UNCHANGED <<expr, i, seq, seq_or, stack, state>>

Advance ==
  /\ i' = i + 1
  /\ UNCHANGED <<expr, pc, result>>

\* '+', '*', '?' that skips a quantifier with nothing to apply to
ReadPSQ_skip ==
  \E c \in QuantChars :
    /\ InChar(c)
    /\ LET r == parse_plus_star_question(seq, PSQOf(c), i)
       IN /\ seq' = IF r[1] = "Ok" THEN r[2] ELSE seq
          /\ Advance
          /\ UNCHANGED <<seq_or, stack, state>>

\* '+', '*', '?'
ReadPSQ ==
  \E c \in QuantChars :
    /\ InChar(c)
    /\ LET r == parse_plus_star_question(seq, PSQOf(c), i)
       IN IF r[1] = "Ok"
          THEN /\ seq' = r[2]
               /\ Advance
               /\ UNCHANGED <<seq_or, stack, state>>
          ELSE Return(r)

\* '(' that saves the alternatives but keeps them current as well
ReadLeftParen_keep_or ==
  /\ InChar("(")
  /\ stack' = Append(stack, <<seq, seq_or>>)
  /\ seq' = <<>>
  /\ Advance
  /\ UNCHANGED <<seq_or, state>>

\* '('
ReadLeftParen ==
  /\ InChar("(")
  /\ stack' = Append(stack, <<seq, seq_or>>)
  /\ seq' = <<>>
  /\ seq_or' = <<>>
  /\ Advance
  /\ UNCHANGED state

\* ')' that restores the saved pair but leaves it on the stack
ReadRightParen_no_pop ==
  /\ InChar(")")
  /\ LET p == VecPop(stack)
     IN IF p[2][1] = "Some"
        THEN LET prev == p[2][2][1]
                 prev_or == p[2][2][2]
                 alts == IF seq # <<>> THEN Append(seq_or, ASTSeq(seq))
                         ELSE seq_or
                 f == fold_or(alts)
             IN IF f = Panic
                THEN Return(Panic)
                ELSE /\ seq' = IF f[1] = "Some" THEN Append(prev, f[2])
                               ELSE prev
                     /\ seq_or' = prev_or
                     /\ Advance
                     /\ UNCHANGED <<stack, state>>
        ELSE Return(InvalidRightParen(i))

\* ')' that pushes the sequence without testing it for emptiness
ReadRightParen_push_empty ==
  /\ InChar(")")
  /\ LET p == VecPop(stack)
     IN IF p[2][1] = "Some"
        THEN LET prev == p[2][2][1]
                 prev_or == p[2][2][2]
                 f == fold_or(Append(seq_or, ASTSeq(seq)))
             IN IF f = Panic
                THEN Return(Panic)
                ELSE /\ seq' = IF f[1] = "Some" THEN Append(prev, f[2])
                               ELSE prev
                     /\ seq_or' = prev_or
                     /\ stack' = p[1]
                     /\ Advance
                     /\ UNCHANGED state
        ELSE Return(InvalidRightParen(i))

\* ')' that folds the alternatives without the sequence being read
ReadRightParen_drop_seq ==
  /\ InChar(")")
  /\ LET p == VecPop(stack)
     IN IF p[2][1] = "Some"
        THEN LET prev == p[2][2][1]
                 prev_or == p[2][2][2]
                 f == fold_or(seq_or)
             IN IF f = Panic
                THEN Return(Panic)
                ELSE /\ seq' = IF f[1] = "Some" THEN Append(prev, f[2])
                               ELSE prev
                     /\ seq_or' = prev_or
                     /\ stack' = p[1]
                     /\ Advance
                     /\ UNCHANGED state
        ELSE Return(InvalidRightParen(i))

\* ')' that reports an unmatched parenthesis as a missing one
ReadRightParen_wrong_kind ==
  /\ InChar(")")
  /\ LET p == VecPop(stack)
     IN IF p[2][1] = "Some"
        THEN LET prev == p[2][2][1]
                 prev_or == p[2][2][2]
                 alts == IF seq # <<>> THEN Append(seq_or, ASTSeq(seq))
                         ELSE seq_or
                 f == fold_or(alts)
             IN IF f = Panic
                THEN Return(Panic)
                ELSE /\ seq' = IF f[1] = "Some" THEN Append(prev, f[2])
                               ELSE prev
                     /\ seq_or' = prev_or
                     /\ stack' = p[1]
                     /\ Advance
                     /\ UNCHANGED state
        ELSE Return(NoRightParen)

\* ')'
ReadRightParen ==
  /\ InChar(")")
  /\ LET p == VecPop(stack)
     IN IF p[2][1] = "Some"
        THEN LET prev == p[2][2][1]
                 prev_or == p[2][2][2]
                 alts == IF seq # <<>> THEN Append(seq_or, ASTSeq(seq))
                         ELSE seq_or
                 f == fold_or(alts)
             IN IF f = Panic
                THEN Return(Panic)
                ELSE /\ seq' = IF f[1] = "Some" THEN Append(prev, f[2])
                               ELSE prev
                     /\ seq_or' = prev_or
                     /\ stack' = p[1]
                     /\ Advance
                     /\ UNCHANGED state
        ELSE Return(InvalidRightParen(i))

\* '|' that stores a one-element sequence as its element
ReadBar_unwrap_single ==
  /\ InChar("|")
  /\ IF seq = <<>>
     THEN Return(NoPrev(i))
     ELSE /\ seq_or' = Append(seq_or, IF Len(seq) = 1 THEN seq[1]
                                      ELSE ASTSeq(seq))
          /\ seq' = <<>>
          /\ Advance
          /\ UNCHANGED <<stack, state>>

\* '|' without the test for an empty sequence
ReadBar_no_check ==
  /\ InChar("|")
  /\ seq_or' = Append(seq_or, ASTSeq(seq))
  /\ seq' = <<>>
  /\ Advance
  /\ UNCHANGED <<stack, state>>

\* '|'
ReadBar ==
  /\ InChar("|")
  /\ IF seq = <<>>
     THEN Return(NoPrev(i))
     ELSE /\ seq_or' = Append(seq_or, ASTSeq(seq))
          /\ seq' = <<>>
          /\ Advance
          /\ UNCHANGED <<stack, state>>

\* '\\'
ReadBackslash ==
  /\ InChar("\\")
  /\ state' = "Escape"
  /\ Advance
  /\ UNCHANGED <<seq, seq_or, stack>>

\* literal arm that inserts the node at the front of the sequence
ReadLiteral_front ==
  /\ pc = "loop"
  /\ i < Len(expr)
  /\ state = "Char"
  /\ expr[i + 1] \notin SyntaxChars
  /\ seq' = <<Char(expr[i + 1])>> \o seq
  /\ Advance
  /\ UNCHANGED <<seq_or, stack, state>>

\* any other character
ReadLiteral ==
  /\ pc = "loop"
  /\ i < Len(expr)
  /\ state = "Char"
  /\ expr[i + 1] \notin SyntaxChars
  /\ seq' = Append(seq, Char(expr[i + 1]))
  /\ Advance
  /\ UNCHANGED <<seq_or, stack, state>>

\* ParseState::Escape
ReadEscaped ==
  /\ pc = "loop"
  /\ i < Len(expr)
  /\ state = "Escape"
  /\ LET r == parse_escape(i, expr[i + 1])
     IN IF r[1] = "Ok"
        THEN /\ seq' = Append(seq, r[2])
             /\ state' = "Char"
             /\ Advance
             /\ UNCHANGED <<seq_or, stack>>
        ELSE Return(r)

\* end of input that rejects a backslash with nothing after it
EndOfInput_escape_error ==
  /\ pc = "loop"
  /\ i = Len(expr)
  /\ IF state = "Escape"
     THEN Return(InvalidEscape(i, "\\"))
     ELSE IF stack # <<>>
          THEN Return(NoRightParen)
          ELSE LET alts == IF seq # <<>> THEN Append(seq_or, ASTSeq(seq))
                           ELSE seq_or
                   f == fold_or(alts)
               IN IF f = Panic
                  THEN Return(Panic)
                  ELSE IF f[1] = "Some" THEN Return(Ok(f[2]))
                       ELSE Return(Empty)

\* end of input that pushes the sequence without testing it for emptiness
EndOfInput_push_empty ==
  /\ pc = "loop"
  /\ i = Len(expr)
  /\ IF stack # <<>>
     THEN Return(NoRightParen)
     ELSE LET f == fold_or(Append(seq_or, ASTSeq(seq)))
          IN IF f = Panic
             THEN Return(Panic)
             ELSE IF f[1] = "Some" THEN Return(Ok(f[2])) ELSE Return(Empty)

\* end of input that folds before it looks at the stack
EndOfInput_fold_first ==
  /\ pc = "loop"
  /\ i = Len(expr)
  /\ LET alts == IF seq # <<>> THEN Append(seq_or, ASTSeq(seq))
                 ELSE seq_or
         f == fold_or(alts)
     IN IF f = Panic
        THEN Return(Panic)
        ELSE IF f[1] = "Some"
             THEN IF stack # <<>> THEN Return(NoRightParen)
                  ELSE Return(Ok(f[2]))
             ELSE Return(Empty)

\* after the loop
EndOfInput ==
  /\ pc = "loop"
  /\ i = Len(expr)
  /\ IF stack # <<>>
     THEN Return(NoRightParen)
     ELSE LET alts == IF seq # <<>> THEN Append(seq_or, ASTSeq(seq))
                      ELSE seq_or
              f == fold_or(alts)
          IN IF f = Panic
             THEN Return(Panic)
             ELSE IF f[1] = "Some" THEN Return(Ok(f[2])) ELSE Return(Empty)

Next ==
  \/ ReadPSQ
  \/ ReadLeftParen
  \/ ReadRightParen
  \/ ReadBar
  \/ ReadBackslash
  \/ ReadLiteral
  \/ ReadEscaped
  \/ EndOfInput

Spec == Init /\ [][Next]_vars

\* the loop and the code after it run to completion once parse is called
SpecFair == Spec /\ WF_vars(Next)

\* ------------------------------------------------------------ properties
AllChars == Alphabet \cup {"c", "n"}

RECURSIVE IsAST(_)
IsAST(t) ==
  CASE t[1] = "Char" -> Len(t) = 2 /\ t[2] \in AllChars
    [] t[1] \in {"Plus", "Star", "Question"} -> Len(t) = 2 /\ IsAST(t[2])
    [] t[1] = "Or" -> Len(t) = 3 /\ IsAST(t[2]) /\ IsAST(t[3])
    [] t[1] = "Seq" -> Len(t) = 2 /\ \A k \in 1..Len(t[2]) : IsAST(t[2][k])
    [] OTHER -> FALSE

IsParserError(r) ==
  \/ r \in { InvalidEscape(pos, c) : pos \in 0..(Len(expr) - 1), c \in AllChars }
  \/ r \in { InvalidRightParen(pos) : pos \in 0..(Len(expr) - 1) }
  \/ r \in { NoPrev(pos) : pos \in 0..(Len(expr) - 1) }
  \/ r = NoRightParen
  \/ r = Empty

C1_Result ==
  /\ i \in 0..Len(expr)
  /\ pc = "loop" => result = None
  /\ pc = "done" =>
       \/ result[1] = "Ok" /\ Len(result) = 2 /\ IsAST(result[2])
       \/ result[1] = "Err" /\ IsParserError(result)

C1_Step ==
  /\ pc = "loop"
  /\ expr' = expr
  /\ \/ i' = i + 1 /\ i < Len(expr) /\ pc' = "loop"
     \/ i' = i /\ pc' = "done"

\* C1: parse is total.  Every call reads the characters of its input in
\* order, each at most once, ends, and returns exactly one AST or exactly
\* one of the five error kinds; no step aborts (the unwrap inside fold_or
\* never meets an empty list) and nothing happens after the return.
C1_Total == [](C1_Result) /\ [][C1_Step]_vars /\ <>(pc = "done")

\* "()" has been parsed: fold_or was called on an empty list at ')' and
\* again at the end of the input
C1_Witness ==
  /\ pc = "done"
  /\ expr = <<"(", ")">>
  /\ result = Empty

\* ---------------------------------------------------------------- helpers
Last(v) == v[Len(v)]
Front(v) == SubSeq(v, 1, Len(v) - 1)

\* the parser is about to read character c in Normal mode at position i
AtNormal(c) == pc = "loop" /\ i < Len(expr) /\ state = "Char" /\ expr[i + 1] = c

AtEnd == pc = "loop" /\ i = Len(expr)

\* the Char leaves of a tree, left to right
RECURSIVE Flatten(_), FlattenAll(_)
Flatten(t) ==
  CASE t[1] = "Char" -> <<t[2]>>
    [] t[1] \in {"Plus", "Star", "Question"} -> Flatten(t[2])
    [] t[1] = "Or" -> Flatten(t[2]) \o Flatten(t[3])
    [] t[1] = "Seq" -> FlattenAll(t[2])
FlattenAll(ts) ==
  IF ts = <<>> THEN <<>> ELSE Flatten(Head(ts)) \o FlattenAll(Tail(ts))

OnlyLiterals == \A k \in 1..Len(expr) : expr[k] \notin SyntaxChars

\* the statement of C2 as written, the empty input included
C2_AllLiteralInputs ==
  (pc = "done" /\ OnlyLiterals) =>
    (result[1] = "Ok" /\ Flatten(result[2]) = expr)

\* C2 (amended): for every non-empty input made only of literal
\* characters, parse succeeds and the Char leaves of the tree, read left to
\* right, are the input.
C2_Literals ==
  (pc = "done" /\ OnlyLiterals /\ expr # <<>>) =>
    (result[1] = "Ok" /\ Flatten(result[2]) = expr)

C2_Witness ==
  /\ pc = "done"
  /\ expr = <<"a", "b", "c">>
  /\ result = Ok(ASTSeq(<<Char("a"), Char("b"), Char("c")>>))

\* the alternatives completed at the current level, in written order, at
\* the moment the level is closed
LevelAlts == IF seq # <<>> THEN Append(seq_or, ASTSeq(seq)) ELSE seq_or

\* Or(a1, Or(a2, ... Or(a(n-1), an))) for n >= 1
RECURSIVE OrChain(_)
OrChain(a) == IF Len(a) = 1 THEN a[1] ELSE Or(a[1], OrChain(Tail(a)))

C3_Step ==
  /\ (AtNormal(")") /\ stack # <<>>) =>
       seq' = IF LevelAlts = <<>> THEN Last(stack)[1]
              ELSE Append(Last(stack)[1], OrChain(LevelAlts))
  /\ (AtEnd /\ stack = <<>>) =>
       result' = IF LevelAlts = <<>> THEN Empty ELSE Ok(OrChain(LevelAlts))

C3_Example ==
  (pc = "done" /\ expr = <<"a", "|", "b", "|", "c">>) =>
    result = Ok(Or(ASTSeq(<<Char("a")>>),
                   Or(ASTSeq(<<Char("b")>>), ASTSeq(<<Char("c")>>))))

\* C3: the node produced for a level with alternatives a1..an (n >= 2) is
\* Or(a1, Or(a2, ... an)); with one alternative it is that alternative;
\* with none, no node is produced.  "a|b|c" gives Or(a, Or(b, c)).
C3_OrFold == [][C3_Step]_vars /\ [](C3_Example)

C3_Witness ==
  /\ pc = "done"
  /\ expr = <<"a", "|", "b", "|", "c">>
  /\ result = Ok(Or(ASTSeq(<<Char("a")>>),
                    Or(ASTSeq(<<Char("b")>>), ASTSeq(<<Char("c")>>))))

GroupExample == <<"(", "a", "|", "b", ")", "c">>

\* the statement of C4 as written: the operands of the Or are Char nodes
C4_CharOperands ==
  (pc = "done" /\ expr = GroupExample) =>
    result = Ok(ASTSeq(<<Or(Char("a"), Char("b")), Char("c")>>))

\* C4 (amended): parse("(a|b)c") is Seq([Or(Seq([a]), Seq([b])), c]); the
\* operands of the Or made for a group of single-character alternatives
\* are one-element Seq nodes around the Char nodes.
C4_Group ==
  /\ (pc = "done" /\ expr = GroupExample) =>
       result = Ok(ASTSeq(<<Or(ASTSeq(<<Char("a")>>), ASTSeq(<<Char("b")>>)),
                            Char("c")>>))
  /\ (pc = "done" /\ Len(expr) = 5 /\ expr[1] = "(" /\ expr[3] = "|"
        /\ expr[5] = ")" /\ expr[2] \in Literals /\ expr[4] \in Literals) =>
       result = Ok(ASTSeq(<<Or(ASTSeq(<<Char(expr[2])>>),
                               ASTSeq(<<Char(expr[4])>>))>>))

C4_Witness ==
  /\ pc = "done"
  /\ expr = GroupExample
  /\ result[1] = "Ok"
  /\ Flatten(result[2]) = <<"a", "b", "c">>

IsQuantified(t) == t[1] \in {"Plus", "Star", "Question"}

\* the node for character c followed by the quantifiers qs
RECURSIVE Quantified(_, _)
Quantified(c, qs) ==
  IF qs = <<>> THEN Char(c)
  ELSE PSQNode(PSQOf(Last(qs)), Quantified(c, Front(qs)))

C5_Final ==
  (pc = "done" /\ Len(expr) >= 2 /\ expr[1] \in Literals
     /\ \A k \in 2..Len(expr) : expr[k] \in QuantChars) =>
    result = Ok(ASTSeq(<<Quantified(expr[1], Tail(expr))>>))

C5_Step ==
  \A c \in QuantChars :
    (AtNormal(c) /\ seq # <<>> /\ IsQuantified(Last(seq))) =>
      /\ pc' = "loop"
      /\ Last(seq') = PSQNode(PSQOf(c), Last(seq))

\* C5: a quantifier after an already quantified node is accepted and wraps
\* that node again; k quantifiers after a character give k nested
\* quantifier nodes, the first written innermost ("a**" gives
\* Star(Star(Char('a'))) as the element of the root sequence).
C5_Repeat == [](C5_Final) /\ [][C5_Step]_vars

C5_Witness ==
  /\ pc = "done"
  /\ expr = <<"a", "*", "*">>
  /\ result = Ok(ASTSeq(<<Star(Star(Char("a")))>>))

C6_Step ==
  \A c \in QuantChars :
    (AtNormal(c) /\ seq # <<>>) =>
      /\ seq' = Append(Front(seq), PSQNode(PSQOf(c), Last(seq)))
      /\ Len(seq') = Len(seq)
      /\ UNCHANGED <<seq_or, stack, state>>
      /\ pc' = "loop"

C6_Examples ==
  /\ (pc = "done" /\ expr = <<"a", "b", "*">>) =>
       result = Ok(ASTSeq(<<Char("a"), Star(Char("b"))>>))
  /\ (pc = "done" /\ expr = <<"(", "a", "b", ")", "*">>) =>
       result = Ok(ASTSeq(<<Star(ASTSeq(<<Char("a"), Char("b")>>))>>))

\* C6: in Normal mode a quantifier replaces only the last element of the
\* accumulator by its Plus/Star/Question; the length, the earlier
\* elements, the alternatives and the stack stay as they were ("ab*"
\* quantifies b, "(ab)*" quantifies the group).
C6_Frame == [][C6_Step]_vars /\ [](C6_Examples)

C6_Witness ==
  /\ pc = "done"
  /\ expr = <<"(", "a", "b", ")", "*">>
  /\ result = Ok(ASTSeq(<<Star(ASTSeq(<<Char("a"), Char("b")>>))>>))

\* number of consecutive backslashes that end at index k of the input
RECURSIVE BackslashRun(_)
BackslashRun(k) ==
  IF k = 0 THEN 0
  ELSE IF expr[k] # "\\" THEN 0 ELSE 1 + BackslashRun(k - 1)

\* the character at index k is not preceded by an escaping backslash
Unescaped(k) == BackslashRun(k - 1) % 2 = 0

C7_Step ==
  \A c \in QuantChars \cup {"|"} :
    (AtNormal(c) /\ seq = <<>>) => (pc' = "done" /\ result' = NoPrev(i))

C7_EmptyAt ==
  (pc = "loop" /\ state = "Char"
     /\ (i = 0 \/ (i > 0 /\ expr[i] \in {"(", "|"} /\ Unescaped(i)))) =>
    seq = <<>>

C7_Example ==
  (pc = "done" /\ expr = <<"*", "a">>) => result = NoPrev(0)

\* C7: '+', '*', '?' or '|' read in Normal mode at position i with an empty
\* accumulator fails with NoPrev(i); the accumulator is empty at position
\* 0 and right after an unescaped '(' or '|'.  "*a" fails with NoPrev(0).
C7_NoPrev == [][C7_Step]_vars /\ [](C7_EmptyAt) /\ [](C7_Example)

C7_Witness ==
  /\ pc = "done"
  /\ expr = <<"a", "|", "|">>
  /\ result = NoPrev(2)

C8_Step ==
  /\ (AtNormal(")") /\ stack = <<>>) =>
       (pc' = "done" /\ result' = InvalidRightParen(i))
  /\ (AtNormal(")") /\ stack # <<>>) => pc' = "loop"

C8_Final ==
  /\ (pc = "done" /\ expr = <<"a", ")">>) => result = InvalidRightParen(1)
  /\ (pc = "done" /\ result[1] = "Err" /\ result[2] = "InvalidRightParen") =>
       (expr[result[3] + 1] = ")" /\ stack = <<>>)

\* C8: ')' read in Normal mode at position i with an empty stack fails
\* with InvalidRightParen(i); ')' read with a non-empty stack never does.
\* "a)" fails with InvalidRightParen(1).
C8_RightParen == [][C8_Step]_vars /\ [](C8_Final)

C8_Witness ==
  /\ pc = "done"
  /\ expr = <<"a", ")">>
  /\ result = InvalidRightParen(1)

C9_Step ==
  (AtEnd /\ stack # <<>>) => (pc' = "done" /\ result' = NoRightParen)

C9_Examples ==
  /\ (pc = "done" /\ expr = <<"(", "a">>) => result = NoRightParen
  /\ (pc = "done" /\ expr = <<"(">>) => result = NoRightParen

\* C9: when the input is consumed without a positional error and the
\* stack is not empty, parse fails with NoRightParen, however many groups
\* are open and whatever they hold; "(" gives NoRightParen, not Empty.
C9_NoRightParen == [][C9_Step]_vars /\ [](C9_Examples)

C9_Witness ==
  /\ pc = "done"
  /\ expr = <<"(", "(", "a", ")">>
  /\ Len(stack) = 1
  /\ result = NoRightParen

C10_Step ==
  (pc = "loop" /\ i < Len(expr) /\ state = "Escape") =>
    IF expr[i + 1] \in SyntaxChars
    THEN /\ seq' = Append(seq, Char(expr[i + 1]))
         /\ UNCHANGED <<stack, seq_or>>
         /\ state' = "Char"
         /\ pc' = "loop"
    ELSE /\ pc' = "done"
         /\ result' = InvalidEscape(i, expr[i + 1])

C10_Examples ==
  /\ (pc = "done" /\ expr = <<"\\", "n">>) => result = InvalidEscape(1, "n")
  /\ (pc = "done" /\ expr = <<"\\", "(">>) =>
       (result = Ok(ASTSeq(<<Char("(")>>)) /\ stack = <<>>)

\* C10: the character c read in Escape mode at position i is never syntax:
\* if c is one of \ ( ) | + * ? then Char(c) is appended, stack and
\* alternatives are unchanged and the mode is Normal again; otherwise
\* parse fails with InvalidEscape(i, c), i being the position of c.
C10_Escape == [][C10_Step]_vars /\ [](C10_Examples)

C10_Witness ==
  /\ pc = "done"
  /\ expr = <<"\\", "n">>
  /\ result = InvalidEscape(1, "n")

\* number of occurrences of c among the first k characters of the input
Occ(c, k) == Cardinality({j \in 1..k : expr[j] = c})

\* the input is built only from balanced parentheses: empty groups
OnlyEmptyGroups ==
  /\ \A k \in 1..Len(expr) : expr[k] \in {"(", ")"}
  /\ \A k \in 1..Len(expr) : Occ(")", k) <= Occ("(", k)
  /\ Occ(")", Len(expr)) = Occ("(", Len(expr))

C11_Step ==
  /\ AtEnd => ((stack = <<>> /\ LevelAlts = <<>>) <=> result' = Empty)
  /\ result' = Empty => AtEnd

C11_Final ==
  /\ (pc = "done" /\ result = Empty) =>
       (i = Len(expr) /\ stack = <<>> /\ seq = <<>> /\ seq_or = <<>>)
  /\ (pc = "done" /\ expr = <<>>) => result = Empty
  /\ (pc = "done" /\ expr = <<"(", ")">>) => result = Empty
  /\ (pc = "done" /\ OnlyEmptyGroups) => result = Empty

\* C11: parse fails with Empty exactly when the whole input was read
\* without a positional error, the stack is empty at the end and the final
\* fold of the top-level alternatives gives no node; "", "()" and every
\* pattern of balanced empty groups fail with Empty.
C11_Empty == [][C11_Step]_vars /\ [](C11_Final)

C11_Witness ==
  /\ pc = "done"
  /\ expr = <<"(", "(", ")", ")">>
  /\ result = Empty

\* no Seq node of the tree has zero children
RECURSIVE NoEmptySeq(_)
NoEmptySeq(t) ==
  CASE t[1] = "Char" -> TRUE
    [] t[1] \in {"Plus", "Star", "Question"} -> NoEmptySeq(t[2])
    [] t[1] = "Or" -> NoEmptySeq(t[2]) /\ NoEmptySeq(t[3])
    [] t[1] = "Seq" ->
         t[2] # <<>> /\ \A k \in 1..Len(t[2]) : NoEmptySeq(t[2][k])

\* number of Or nodes of a tree, and of a list of trees
RECURSIVE OrCount(_), OrCountAll(_)
OrCount(t) ==
  CASE t[1] = "Char" -> 0
    [] t[1] \in {"Plus", "Star", "Question"} -> OrCount(t[2])
    [] t[1] = "Or" -> 1 + OrCount(t[2]) + OrCount(t[3])
    [] t[1] = "Seq" -> OrCountAll(t[2])
OrCountAll(ts) ==
  IF ts = <<>> THEN 0 ELSE OrCount(Head(ts)) + OrCountAll(Tail(ts))

RECURSIVE OrCountStack(_)
OrCountStack(st) ==
  IF st = <<>> THEN 0
  ELSE OrCountAll(Head(st)[1]) + OrCountAll(Head(st)[2])
         + OrCountStack(Tail(st))

\* Or nodes held in the accumulator, the alternatives and the stack
HeldOr == OrCountAll(seq) + OrCountAll(seq_or) + OrCountStack(stack)

\* Or nodes that closing the current level makes: n - 1 for n >= 2
MadeOr == IF Len(LevelAlts) >= 2 THEN Len(LevelAlts) - 1 ELSE 0

HeldWellFormed ==
  /\ \A k \in 1..Len(seq) : NoEmptySeq(seq[k])
  /\ \A k \in 1..Len(seq_or) : NoEmptySeq(seq_or[k])
  /\ \A d \in 1..Len(stack) :
       /\ \A k \in 1..Len(stack[d][1]) : NoEmptySeq(stack[d][1][k])
       /\ \A k \in 1..Len(stack[d][2]) : NoEmptySeq(stack[d][2][k])

C12_Inv ==
  /\ HeldWellFormed
  /\ (pc = "done" /\ result[1] = "Ok") =>
       (result[2] # ASTSeq(<<>>) /\ NoEmptySeq(result[2]))

C12_Step ==
  /\ (pc = "loop" /\ pc' = "loop") =>
       HeldOr' = HeldOr + (IF AtNormal(")") THEN MadeOr ELSE 0)
  /\ (AtEnd /\ result'[1] = "Ok") => OrCount(result'[2]) = HeldOr + MadeOr
  /\ (AtNormal(")") /\ stack # <<>> /\ Len(LevelAlts) = 1) =>
       seq' = Append(Last(stack)[1], LevelAlts[1])
  /\ (AtEnd /\ stack = <<>> /\ Len(LevelAlts) = 1) =>
       result' = Ok(LevelAlts[1])

\* C12: the tree of a successful parse is not the empty Seq, holds no Seq
\* without children, and holds an Or only where a level had at least two
\* alternatives (closing a level with n alternatives adds n - 1 Or nodes
\* for n >= 2 and none otherwise; nothing else adds one).  Every node held
\* in the accumulator, the alternatives or the stack is well formed too.
C12_WellFormed == [](C12_Inv) /\ [][C12_Step]_vars

C12_Witness ==
  /\ pc = "done"
  /\ expr = <<"(", "a", "|", ")", "b">>
  /\ result = Ok(ASTSeq(<<ASTSeq(<<Char("a")>>), Char("b")>>))

\* the tree holds an Or whose right operand is the empty Seq
RECURSIVE HasOrWithEmptyRight(_)
HasOrWithEmptyRight(t) ==
  CASE t[1] = "Char" -> FALSE
    [] t[1] \in {"Plus", "Star", "Question"} -> HasOrWithEmptyRight(t[2])
    [] t[1] = "Or" ->
         \/ t[3] = ASTSeq(<<>>)
         \/ HasOrWithEmptyRight(t[2])
         \/ HasOrWithEmptyRight(t[3])
    [] t[1] = "Seq" -> \E k \in 1..Len(t[2]) : HasOrWithEmptyRight(t[2][k])

DanglingExamples == { <<"a", "|">>, <<"(", "a", "|", ")">> }

\* the statement of C13 as written: the empty right side becomes an empty
\* Seq operand of an Or
C13_EmptyAlternative ==
  (pc = "done" /\ expr \in DanglingExamples) =>
    (result[1] = "Ok" /\ HasOrWithEmptyRight(result[2]))

C13_Step ==
  /\ (AtEnd /\ stack = <<>> /\ seq = <<>> /\ seq_or # <<>>) =>
       result' = Ok(OrChain(seq_or))
  /\ (AtNormal(")") /\ stack # <<>> /\ seq = <<>> /\ seq_or # <<>>) =>
       seq' = Append(Last(stack)[1], OrChain(seq_or))

C13_Examples ==
  /\ (pc = "done" /\ expr = <<"a", "|">>) =>
       result = Ok(ASTSeq(<<Char("a")>>))
  /\ (pc = "done" /\ expr = <<"(", "a", "|", ")">>) =>
       result = Ok(ASTSeq(<<ASTSeq(<<Char("a")>>)>>))
  /\ (pc = "done" /\ result[1] = "Ok") => ~HasOrWithEmptyRight(result[2])

\* C13 (amended): a '|' whose right side is empty ("a|", "(a|)") is
\* accepted, and the empty right side is dropped: the level folds only the
\* alternatives completed before it, so "a|" parses like "a" and "(a|)"
\* like "(a)", with no Or and no empty Seq for the missing side.
C13_Dangling == [][C13_Step]_vars /\ [](C13_Examples)

C13_Witness ==
  /\ pc = "done"
  /\ expr = <<"a", "|">>
  /\ result = Ok(ASTSeq(<<Char("a")>>))

IsPositional(r) ==
  r[1] = "Err" /\ r[2] \in {"InvalidEscape", "InvalidRightParen", "NoPrev"}

\* the character about to be read violates a rule at position i
Violates ==
  /\ pc = "loop"
  /\ i < Len(expr)
  /\ \/ state = "Char" /\ expr[i + 1] \in QuantChars \cup {"|"} /\ seq = <<>>
     \/ state = "Char" /\ expr[i + 1] = ")" /\ stack = <<>>
     \/ state = "Escape" /\ expr[i + 1] \notin SyntaxChars

C14_Step ==
  /\ pc = "loop"
  /\ Violates => (pc' = "done" /\ IsPositional(result') /\ result'[3] = i
                    /\ i' = i)
  /\ (i < Len(expr) /\ ~Violates) => (pc' = "loop" /\ i' = i + 1)
  /\ IsPositional(result') => Violates

C14_Inv ==
  /\ (pc = "done" /\ IsPositional(result)) =>
       (result[3] = i /\ i < Len(expr))
  /\ (pc = "done" /\ ~IsPositional(result)) => i = Len(expr)
  /\ (pc = "done" /\ expr = <<"*", ")">>) => result = NoPrev(0)
  /\ (pc = "done" /\ expr = <<")", "(">>) => result = InvalidRightParen(0)
  /\ (pc = "done" /\ expr = <<"(", "*">>) => result = NoPrev(1)
  /\ (pc = "done" /\ expr = <<"a", "\\", "n">>) =>
       result = InvalidEscape(2, "n")
  /\ (pc = "done" /\ expr = <<"\\", "a", ")">>) =>
       result = InvalidEscape(1, "a")

\* C14: parse is fail-fast.  The first character that violates a rule ends
\* the parse with the positional error of its own position; no later
\* character is read and no AST is returned.  NoRightParen, Empty and
\* success are returned only after every character was read without a
\* positional error.
C14_FailFast == [][C14_Step]_vars /\ [](C14_Inv)

C14_Witness ==
  /\ pc = "done"
  /\ expr = <<"*", ")", "(">>
  /\ i = 0
  /\ result = NoPrev(0)

C15_Step ==
  /\ AtNormal("(") =>
       /\ stack' = Append(stack, <<seq, seq_or>>)
       /\ seq' = <<>>
       /\ seq_or' = <<>>
  /\ (AtNormal(")") /\ stack # <<>>) =>
       /\ stack' = Front(stack)
       /\ seq_or' = Last(stack)[2]
       /\ \/ seq' = Last(stack)[1]
          \/ /\ Len(seq') = Len(Last(stack)[1]) + 1
             /\ Front(seq') = Last(stack)[1]
  /\ \A k \in 1..Len(stack) : k <= Len(stack') => stack'[k] = stack[k]
  /\ ~(AtNormal("(") \/ AtNormal(")")) => stack' = stack

C15_Examples ==
  /\ (pc = "done" /\ expr = <<"a", "|", "(", "b", ")">>) =>
       result = Ok(Or(ASTSeq(<<Char("a")>>),
                      ASTSeq(<<ASTSeq(<<Char("b")>>)>>)))
  /\ (pc = "done" /\ expr = <<"(", "a", "|", "b", ")", "c">>) =>
       (result[1] = "Ok" /\ result[2][1] = "Seq" /\ Len(result[2][2]) = 2)

\* C15: '(' pushes the current (accumulator, alternatives) pair and empties
\* both; the matching ')' pops it and makes it current again, the
\* alternatives as saved and the accumulator as saved but for at most one
\* node appended.  No other step changes the stack, and no step changes a
\* pair that stays on the stack.
C15_SaveRestore == [][C15_Step]_vars /\ [](C15_Examples)

C15_Witness ==
  /\ pc = "done"
  /\ expr = <<"a", "|", "(", "b", ")">>
  /\ result = Ok(Or(ASTSeq(<<Char("a")>>),
                    ASTSeq(<<ASTSeq(<<Char("b")>>)>>)))

\* ---------------------------------------------------- parse as a function
\* The same code as one function of the input, for statements that relate
\* the results of two inputs.  A configuration is <<seq, seq_or, stack,
\* state>>; a step gives <<"Cont", configuration>> or <<"Ret", result>>.

\* the body of the for loop, for character c at position pos
parse_char(cfg, c, pos) ==
  LET s == cfg[1]
      so == cfg[2]
      st == cfg[3]
      mode == cfg[4]
  IN IF mode = "Char"
     THEN CASE c \in QuantChars ->
                 LET r == parse_plus_star_question(s, PSQOf(c), pos)
                 IN IF r[1] = "Ok"
                    THEN <<"Cont", <<r[2], so, st, mode>>>>
                    ELSE <<"Ret", r>>
            [] c = "(" ->
                 <<"Cont", <<<<>>, <<>>, Append(st, <<s, so>>), mode>>>>
            [] c = ")" ->
                 LET p == VecPop(st)
                 IN IF p[2][1] = "Some"
                    THEN LET prev == p[2][2][1]
                             prev_or == p[2][2][2]
                             alts == IF s # <<>> THEN Append(so, ASTSeq(s))
                                     ELSE so
                             f == fold_or(alts)
                         IN IF f = Panic
                            THEN <<"Ret", Panic>>
                            ELSE <<"Cont",
                                   <<IF f[1] = "Some" THEN Append(prev, f[2])
                                     ELSE prev,
                                     prev_or, p[1], mode>>>>
                    ELSE <<"Ret", InvalidRightParen(pos)>>
            [] c = "|" ->
                 IF s = <<>>
                 THEN <<"Ret", NoPrev(pos)>>
                 ELSE <<"Cont", <<<<>>, Append(so, ASTSeq(s)), st, mode>>>>
            [] c = "\\" -> <<"Cont", <<s, so, st, "Escape">>>>
            [] OTHER -> <<"Cont", <<Append(s, Char(c)), so, st, mode>>>>
     ELSE LET r == parse_escape(pos, c)
          IN IF r[1] = "Ok"
             THEN <<"Cont", <<Append(s, r[2]), so, st, "Char">>>>
             ELSE <<"Ret", r>>

\* the code after the loop
parse_end(cfg) ==
  IF cfg[3] # <<>>
  THEN NoRightParen
  ELSE LET alts == IF cfg[1] # <<>> THEN Append(cfg[2], ASTSeq(cfg[1]))
                   ELSE cfg[2]
           f == fold_or(alts)
       IN IF f = Panic THEN Panic
          ELSE IF f[1] = "Some" THEN Ok(f[2]) ELSE Empty

\* the loop from position k on
RECURSIVE parse_from(_, _, _)
parse_from(e, k, cfg) ==
  IF k = Len(e) THEN parse_end(cfg)
  ELSE LET r == parse_char(cfg, e[k + 1], k)
       IN IF r[1] = "Ret" THEN r[2] ELSE parse_from(e, k + 1, r[2])

parse(e) == parse_from(e, 0, <<<<>>, <<>>, <<>>, "Char">>)

\* the input without the two characters at indices k and k + 1
Without(e, k) == SubSeq(e, 1, k - 1) \o SubSeq(e, k + 2, Len(e))

\* result r with a position at or after g moved two characters on
Shifted(r, g) ==
  IF IsPositional(r) /\ r[3] >= g THEN [r EXCEPT ![3] = @ + 2] ELSE r

\* an empty group "()" read in Normal mode starts at index k of the input
EmptyGroupAt(k) ==
  /\ k + 1 <= Len(expr)
  /\ expr[k] = "("
  /\ expr[k + 1] = ")"
  /\ Unescaped(k)

C16_Step ==
  /\ AtNormal("(") =>
       (stack' = Append(stack, <<seq, seq_or>>) /\ state' = state)
  /\ (AtNormal(")") /\ i > 0 /\ EmptyGroupAt(i)) =>
       /\ stack # <<>>
       /\ seq' = Last(stack)[1]
       /\ seq_or' = Last(stack)[2]
       /\ stack' = Front(stack)
       /\ state' = state

C16_Inv ==
  /\ pc = "done" => result = parse(expr)
  /\ pc = "done" =>
       \A k \in 1..Len(expr) :
         EmptyGroupAt(k) => result = Shifted(parse(Without(expr, k)), k - 1)
  /\ (pc = "done" /\ expr = <<"a", "(", ")", "b">>) =>
       result = Ok(ASTSeq(<<Char("a"), Char("b")>>))
  /\ (pc = "done" /\ expr = <<"a", "(", ")", "*">>) =>
       result = Ok(ASTSeq(<<Star(Char("a"))>>))
  /\ (pc = "done" /\ expr = <<"(", ")", "*">>) => result = NoPrev(2)

\* C16: an empty group contributes nothing.  Reading "()" in Normal mode
\* leaves mode, accumulator, alternatives and stack as they were, so
\* parse(p + "()" + q) is parse(p + q), with the position of an error at or
\* after the group moved by 2; "a()b" parses like "ab", and a quantifier
\* right after "()" applies to what precedes the group or fails with NoPrev.
C16_EmptyGroup == [][C16_Step]_vars /\ [](C16_Inv)

C16_Witness ==
  /\ pc = "done"
  /\ expr = <<"a", "(", ")", "b">>
  /\ result = Ok(ASTSeq(<<Char("a"), Char("b")>>))
  /\ result = parse(<<"a", "b">>)

\* number of unescaped occurrences of c among the first k characters
UnescapedOcc(c, k) ==
  Cardinality({j \in 1..k : expr[j] = c /\ Unescaped(j)})

C17_Inv ==
  /\ pc = "loop" =>
       /\ UnescapedOcc(")", i) <= UnescapedOcc("(", i)
       /\ Len(stack) + UnescapedOcc(")", i) = UnescapedOcc("(", i)
  /\ (pc = "done" /\ result[1] = "Ok") =>
       UnescapedOcc("(", Len(expr)) = UnescapedOcc(")", Len(expr))

C17_Step ==
  /\ AtNormal("(") => Len(stack') = Len(stack) + 1
  /\ (AtNormal(")") /\ pc' = "loop") => Len(stack') + 1 = Len(stack)
  /\ ~(AtNormal("(") \/ AtNormal(")")) => Len(stack') = Len(stack)

\* C17: after every error-free prefix the depth of the stack is the number
\* of unescaped '(' minus the number of unescaped ')' read so far, never
\* negative; escaped parentheses and all other characters leave the depth
\* unchanged; parse succeeds only if the difference is 0 at the end.
C17_Depth == [](C17_Inv) /\ [][C17_Step]_vars

C17_Witness ==
  /\ pc = "done"
  /\ expr = <<"\\", "(", "(", "a", ")">>
  /\ result = Ok(ASTSeq(<<Char("("), ASTSeq(<<Char("a")>>)>>))

\* the input ends with a backslash read in Normal mode
DanglingBackslash ==
  /\ Len(expr) >= 1
  /\ expr[Len(expr)] = "\\"
  /\ Unescaped(Len(expr))

\* the step model and the function give the same result
ParseAgrees == pc = "done" => result = parse(expr)

C18_Step ==
  /\ AtNormal("\\") => UNCHANGED <<seq, seq_or, stack>>
  /\ (AtEnd /\ state = "Escape") =>
       /\ pc' = "done"
       /\ result'[1] = "Err" => result'[2] \in {"NoRightParen", "Empty"}
       /\ UNCHANGED <<seq, seq_or, stack>>

C18_Inv ==
  /\ ParseAgrees
  /\ (pc = "done" /\ DanglingBackslash) => result = parse(Front(expr))
  /\ (pc = "done" /\ expr = <<"a", "\\">>) =>
       result = Ok(ASTSeq(<<Char("a")>>))
  /\ (pc = "done" /\ expr = <<"\\">>) => result = Empty

\* C18: a backslash that ends the input is dropped: no escape error is
\* raised for it and nothing is appended, so parse(p + backslash) is
\* parse(p) for every p that ends in Normal mode ("a" and a backslash
\* parse like "a"; a lone backslash fails with Empty).
C18_DanglingBackslash == [][C18_Step]_vars /\ [](C18_Inv)

C18_Witness ==
  /\ pc = "done"
  /\ expr = <<"a", "|", "b", "\\">>
  /\ state = "Escape"
  /\ result = Ok(Or(ASTSeq(<<Char("a")>>), ASTSeq(<<Char("b")>>)))

\* every Or of the tree has a Seq on the left and a Seq or an Or on the
\* right
RECURSIVE SeqWrapped(_)
SeqWrapped(t) ==
  CASE t[1] = "Char" -> TRUE
    [] t[1] \in {"Plus", "Star", "Question"} -> SeqWrapped(t[2])
    [] t[1] = "Or" ->
         /\ t[2][1] = "Seq"
         /\ t[3][1] \in {"Seq", "Or"}
         /\ SeqWrapped(t[2])
         /\ SeqWrapped(t[3])
    [] t[1] = "Seq" -> \A k \in 1..Len(t[2]) : SeqWrapped(t[2][k])

C19_Inv ==
  /\ (pc = "done" /\ result[1] = "Ok") =>
       (result[2][1] \in {"Seq", "Or"} /\ SeqWrapped(result[2]))
  /\ \A k \in 1..Len(seq) : SeqWrapped(seq[k])
  /\ \A k \in 1..Len(seq_or) : seq_or[k][1] = "Seq" /\ SeqWrapped(seq_or[k])
  /\ \A d \in 1..Len(stack) :
       /\ \A k \in 1..Len(stack[d][1]) : SeqWrapped(stack[d][1][k])
       /\ \A k \in 1..Len(stack[d][2]) :
            stack[d][2][k][1] = "Seq" /\ SeqWrapped(stack[d][2][k])

C19_Step ==
  (AtNormal(")") /\ stack # <<>> /\ LevelAlts # <<>>) =>
    /\ Len(seq') = Len(Last(stack)[1]) + 1
    /\ Last(seq')[1] \in {"Seq", "Or"}

\* C19: every completed alternative is stored as a Seq of its accumulator,
\* so the root of a successful parse is a Seq or an Or, every Or has a Seq
\* as left operand and a Seq or another Or as right operand, and the node
\* appended for a non-empty group is a Seq or an Or.
C19_SeqWrapping == [](C19_Inv) /\ [][C19_Step]_vars

C19_Witness ==
  /\ pc = "done"
  /\ expr = <<"a", "|", "b", "+">>
  /\ result = Ok(Or(ASTSeq(<<Char("a")>>), ASTSeq(<<Plus(Char("b"))>>)))

====
